---- MODULE Spec2Model ----
(***************************************************************************)
(* BattleZips-Plonky2: the state-channel circuits (channel open, state     *)
(* increment, channel close) over the board and shot circuits.             *)
(*                                                                         *)
(* A circuit is modelled by what its prover does: the partial witness the  *)
(* witness_* functions write, the constraints the builder synthesises      *)
(* (connect, select, is_equal, range products), and the public inputs it   *)
(* registers.  A prove call yields a proof exactly when the witness        *)
(* satisfies every constraint and no decode step panics.  Field elements   *)
(* are naturals (every value handled here is far below the Goldilocks      *)
(* order), a BoolTarget is 0 or 1.                                         *)
(***************************************************************************)
EXTENDS Integers, Sequences, FiniteSets, TLC

(***************************************************************************)
(* Bounds of the model.                                                    *)
(***************************************************************************)
\* increments explored after a channel open or a supplied state proof
MaxSteps == 3
\* shot rows explored: y ranges over 0..MaxShotRow
MaxShotRow == 1

\* u8 arithmetic of the decoders (`as u8`)
U8 == 256

(***************************************************************************)
(* utils/ship.rs, utils/board.rs: the off-circuit data model.              *)
(***************************************************************************)
\* a ship is <<x, y, z>>, z = TRUE is vertical; a board is its five ships
ShipLengths == <<5, 4, 3, 3, 2>>

\* Ship::coordinates: index of the k-th cell, k in 0..L-1
coordinates(ship, L) ==
    [k \in 0..(L - 1) |->
        LET x == IF ship[3] THEN ship[1] ELSE ship[1] + k
            y == IF ship[3] THEN ship[2] + k ELSE ship[2]
        IN  y * 10 + x]

\* Board::bits: the set of indices in 0..99 whose bit is set
bits(board) ==
    {i \in 0..99 : \E n \in 1..5 : \E k \in 0..(ShipLengths[n] - 1) :
        coordinates(board[n], ShipLengths[n])[k] = i}

\* Board::add_ship writes board[coordinate] of a [bool; 100]: an index of 100
\* or more panics
bits_ok(board) ==
    \A n \in 1..5 : \A k \in 0..(ShipLengths[n] - 1) :
        coordinates(board[n], ShipLengths[n])[k] < 100

\* Board::canonical with bit_index counted from the top of the limb
canonical_reversed(board) ==
    LET b == bits(board)
    IN  << {63 - i : i \in {j \in 0..63 : j \in b}},
           {63 - i : i \in {j \in 0..63 : (j + 64) \in b}} >>

\* Board::print_canonical: bit i of the two limbs, (board[i / 64] >> (i % 64)) & 1
print_canonical(limbs) == {i \in 0..99 : (i % 64) \in limbs[(i \div 64) + 1]}

\* Board::canonical: two u64 limbs, each given by the set of its set bit positions
canonical(board) ==
    LET b == bits(board)
    IN  << {i \in 0..63 : i \in b}, {i \in 0..63 : (i + 64) \in b} >>

\* the boards of the tests, and one more that stays clear of row and column 9
host_board  == << <<3, 4, FALSE>>, <<9, 6, TRUE>>, <<0, 0, FALSE>>, <<0, 6, FALSE>>, <<6, 1, TRUE>> >>
guest_board == << <<3, 3, TRUE>>, <<5, 4, FALSE>>, <<0, 1, FALSE>>, <<0, 5, TRUE>>, <<6, 1, FALSE>> >>
alt_board   == << <<3, 4, FALSE>>, <<8, 5, TRUE>>, <<0, 0, FALSE>>, <<0, 6, FALSE>>, <<6, 1, TRUE>> >>
\* guest_board with its two ships of length 3 exchanged: other ships, the
\* same occupied cells
twin_board  == << <<3, 3, TRUE>>, <<5, 4, FALSE>>, <<0, 5, TRUE>>, <<0, 1, FALSE>>, <<6, 1, FALSE>> >>
Boards == {host_board, guest_board, alt_board, twin_board}

\* PoseidonHash::hash_no_pad on two limbs: an injective table of 4-limb digests
\* (two of the digests agree in three limbs)
Canonicals == [b \in Boards |-> canonical(b)]
hash_no_pad(limbs) ==
    IF limbs = Canonicals[host_board] THEN <<11, 21, 31, 41>>
    ELSE IF limbs = Canonicals[guest_board] THEN <<12, 22, 32, 42>>
    ELSE IF limbs = Canonicals[alt_board] THEN <<11, 21, 31, 43>>
    ELSE <<0, 0, 0, 0>>

\* Board::hash
hash(board) == hash_no_pad(canonical(board))

(***************************************************************************)
(* Circuit builder primitives.                                             *)
(***************************************************************************)
select(b, x, y) == IF b = 1 THEN x ELSE y
is_equal(x, y) == IF x = y THEN 1 ELSE 0
Bit(b) == IF b THEN 1 ELSE 0

(***************************************************************************)
(* gadgets/range.rs, gadgets/shot.rs                                       *)
(***************************************************************************)
RECURSIVE range_product(_, _, _)
\* exp after the loop `for i in lo..hi`: the product of (i - value)
range_product(value, lo, hi) ==
    IF lo >= hi THEN 1 ELSE (lo - value) * range_product(value, lo + 1, hi)

\* less_than_10: the satisfiability of connect(exp, zero)
less_than_10(value) == range_product(value, 0, 9) = 0

\* serialize_shot: the constraints hold / the value returned
serialize_shot_ok(x, y) == less_than_10(x) /\ less_than_10(y)
serialize_shot(x, y) == x + y * 10

\* check_hit reading the bits of the first limb only
check_hit_front(limbs, shot) == Bit((shot % 64) \in limbs[1])

\* check_hit: random access of the decomposed board at the serialized shot
check_hit(limbs, shot) ==
    IF shot < 64 THEN Bit(shot \in limbs[1]) ELSE Bit((shot - 64) \in limbs[2])

(***************************************************************************)
(* gadgets/board.rs and circuits/game/board.rs: the board circuit.         *)
(***************************************************************************)
\* generate_coordiante without the range check on the offset coordinate
generate_coordiante_unchecked(x, y, z, offset) == TRUE

\* generate_coordiante: the range check on the offset coordinate
generate_coordiante_ok(x, y, z, offset) ==
    less_than_10(select(Bit(z), y + offset, x + offset))

\* generate_coordiante with x and y exchanged in the serialized index
generate_coordiante_transposed(x, y, z, offset) ==
    select(Bit(z), y + offset, y) + select(Bit(z), x, x + offset) * 10

\* generate_coordiante: the serialized index returned
generate_coordiante(x, y, z, offset) ==
    select(Bit(z), x, x + offset) + select(Bit(z), y + offset, y) * 10

\* ship_to_coordinates: head and offset range checks
ship_to_coordinates_ok(ship, L) ==
    /\ less_than_10(ship[1])
    /\ less_than_10(ship[2])
    /\ \A i \in 0..(L - 1) : generate_coordiante_ok(ship[1], ship[2], ship[3], i)

ship_to_coordinates(ship, L) ==
    [i \in 0..(L - 1) |-> generate_coordiante(ship[1], ship[2], ship[3], i)]

RECURSIVE bitflip_product(_, _, _, _)
\* exp_t after the loop of interpolate_bitflip_bool.  The indices explored
\* stay below 200 and value below 100, so the differences lie in -99..199 and
\* the product vanishes in the field exactly when it vanishes modulo the
\* prime 251; it is reduced at every step to stay a small integer.
bitflip_product(value, coords, i, L) ==
    IF i >= L THEN 1
    ELSE ((coords[i] - value) * bitflip_product(value, coords, i + 1, L)) % 251

\* interpolate_bitflip_bool over the first coordinate only
interpolate_bitflip_head(value, coords, L) == is_equal(coords[0] - value, 0)

interpolate_bitflip_bool(value, coords, L) ==
    is_equal(bitflip_product(value, coords, 0, L), 0)

\* place_ship without the constraint that the cells of the new ship are empty
place_ship_unconstrained(ship, L, board) == ship_to_coordinates_ok(ship, L)

\* place_ship: the cells of the new ship are empty in the bitmap so far
place_ship_ok(ship, L, board) ==
    /\ ship_to_coordinates_ok(ship, L)
    /\ \A i \in 0..(L - 1) :
          LET c == ship_to_coordinates(ship, L)[i]
          IN  c \in 0..127 /\ board[c] = 0

\* place_ship with the flip loop run over all 128 entries
place_ship_full(ship, L, board) ==
    LET ship_coordinates == ship_to_coordinates(ship, L)
    IN  [i \in 0..127 |->
            select(interpolate_bitflip_bool(i, ship_coordinates, L),
                   board[i] + 1, board[i])]

\* place_ship: the bitmap returned
place_ship(ship, L, board) ==
    LET ship_coordinates == ship_to_coordinates(ship, L)
    IN  [i \in 0..127 |->
            IF i < 100
            THEN select(interpolate_bitflip_bool(i, ship_coordinates, L),
                        board[i] + 1, board[i])
            ELSE board[i]]

board_initial == [i \in 0..127 |-> 0]

RECURSIVE board_after(_, _)
\* the bitmap after the first n placements of BoardCircuit::build
board_after(board, n) ==
    IF n = 0 THEN board_initial
    ELSE place_ship(board[n], ShipLengths[n], board_after(board, n - 1))

\* recompose_board summing each limb from its most significant bit
recompose_board_reversed(bitmap) ==
    << {63 - i : i \in {j \in 0..63 : bitmap[j] = 1}},
       {63 - i : i \in {j \in 0..63 : bitmap[j + 64] = 1}} >>

\* recompose_board: the two limbs, by their set bit positions
recompose_board(bitmap) ==
    << {i \in 0..63 : bitmap[i] = 1}, {i \in 0..63 : bitmap[i + 64] = 1} >>

\* BoardCircuit::prove_inner succeeds
BoardCircuit_ok(board) ==
    \A n \in 1..5 : place_ship_ok(board[n], ShipLengths[n], board_after(board, n - 1))

\* BoardCircuit: the public inputs (the commitment)
BoardCircuit_pis(board) == hash_no_pad(recompose_board(board_after(board, 5)))

(***************************************************************************)
(* circuits/game/shot.rs: the shot circuit.                                *)
(***************************************************************************)
\* ShotCircuit::build registering the first limb's lowest bit as well
ShotCircuit_build_leaky(board_t, shot_t) ==
    LET serialized_t == serialize_shot(shot_t[1], shot_t[2])
    IN  <<serialized_t, check_hit(board_t, serialized_t)>> \o hash_no_pad(board_t)
            \o <<check_hit(board_t, 0)>>

\* ShotCircuit::build: the public inputs over the board and shot targets
ShotCircuit_build(board_t, shot_t) ==
    LET serialized_t == serialize_shot(shot_t[1], shot_t[2])
    IN  <<serialized_t, check_hit(board_t, serialized_t)>> \o hash_no_pad(board_t)

\* ShotCircuit::prove_inner succeeds: the board marshals, the constraints hold
ShotCircuit_ok(board, shot) ==
    bits_ok(board) /\ serialize_shot_ok(shot[1], shot[2])

ShotCircuit_pis(board, shot) == ShotCircuit_build(canonical(board), shot)

\* ShotCircuit::decode_public
ShotCircuit_decode_public(pis) ==
    [shot |-> pis[1] % U8, hit |-> pis[2] # 0, commitment |-> SubSeq(pis, 3, 6)]

(***************************************************************************)
(* circuits/channel/open_channel.rs                                        *)
(***************************************************************************)
prove_channel_open_ok(host_pis, guest_pis, shot) ==
    serialize_shot_ok(shot[1], shot[2])

prove_channel_open_pis(host_pis, guest_pis, shot) ==
    host_pis \o guest_pis \o <<serialize_shot(shot[1], shot[2])>>

\* decode_public of open_channel.rs: <<host, guest>>, both read from
\* public_inputs[0..4]
open_decode_public(pis) == << SubSeq(pis, 1, 4), SubSeq(pis, 1, 4) >>

(***************************************************************************)
(* circuits/channel/increment_channel.rs.  StateIncrementCircuit::prove    *)
(* declares the targets, verifies the two proofs and synthesises the copy  *)
(* constraints and the next shot; prove_channel_increment holds the damage *)
(* multiplexers and registers the public inputs.  The increment is both.   *)
(***************************************************************************)
\* decode_public indexes public inputs 0..11: a shorter vector panics
decode_public_ok(pis) == Len(pis) >= 12

decode_public(pis) ==
    [host         |-> SubSeq(pis, 1, 4),
     guest        |-> SubSeq(pis, 5, 8),
     host_damage  |-> pis[9] % U8,
     guest_damage |-> pis[10] % U8,
     turn         |-> pis[11] # 0,
     shot         |-> pis[12] % U8]

\* witness_prev_state: the values written to the GameTargets
witness_prev_state(prev_pis) ==
    LET state == decode_public(prev_pis)
    IN  [host         |-> state.host,
         guest        |-> state.guest,
         host_damage  |-> state.host_damage,
         guest_damage |-> state.guest_damage,
         turn         |-> Bit(state.turn),
         shot         |-> state.shot]

\* witness_shot: the values written to the ShotProofTargets
witness_shot(shot_pis) ==
    LET outputs == ShotCircuit_decode_public(shot_pis)
    IN  [commitment |-> outputs.commitment,
         hit        |-> Bit(outputs.hit),
         shot       |-> outputs.shot]

\* constrain_commitment: a fresh vector is connected to the multiplexed
\* commitment; the shot proof's commitment takes no part in any constraint
constrain_commitment(prev, shot) ==
    LET constrained_commitment ==
            [i \in 1..4 |-> select(prev.turn, prev.guest[i], prev.host[i])]
    IN  \A i \in 1..4 :
            constrained_commitment[i] = select(prev.turn, prev.guest[i], prev.host[i])

\* constrain_shot with the connect left out
constrain_shot_omitted(prev, shot) == TRUE

\* constrain_shot: connect(prev.shot, shot.shot) over two witnessed targets
constrain_shot(prev, shot) == prev.shot = shot.shot

\* prove_channel_increment: the damage multiplexers
multiplexed_host_damage(prev, shot) ==
    LET host_damage_increment == prev.host_damage + shot.hit
    IN  select(prev.turn, prev.host_damage, host_damage_increment)

multiplexed_guest_damage(prev, shot) ==
    LET guest_damage_increment == prev.host_damage + shot.hit
    IN  select(prev.turn, guest_damage_increment, prev.guest_damage)

\* the flipped turn; computed, and registered nowhere
next_turn_t(prev) == is_equal(prev.turn, 0)

\* the turn target that is registered as public input 10
registered_turn(prev) == prev.turn

\* registered_commitments with guest registered before host
registered_commitments_swapped(prev) == prev.guest \o prev.host

\* the commitments registered as public inputs 0..8
registered_commitments(prev) == prev.host \o prev.guest

\* the increment yields a proof: no decoder panics, every constraint holds
increment_ok(prev_pis, shot_pis, next) ==
    /\ decode_public_ok(prev_pis)
    /\ Len(shot_pis) >= 6
    /\ LET prev == witness_prev_state(prev_pis)
           shot == witness_shot(shot_pis)
       IN  /\ constrain_commitment(prev, shot)
           /\ constrain_shot(prev, shot)
           /\ serialize_shot_ok(next[1], next[2])

\* the public inputs of the increment proof
increment_pis(prev_pis, shot_pis, next) ==
    LET prev == witness_prev_state(prev_pis)
        shot == witness_shot(shot_pis)
    IN  registered_commitments(prev)
            \o << multiplexed_host_damage(prev, shot),
                  multiplexed_guest_damage(prev, shot),
                  registered_turn(prev),
                  serialize_shot(next[1], next[2]) >>

(***************************************************************************)
(* circuits/channel/close_channel.rs                                       *)
(***************************************************************************)
threshold == 17

\* partial_witness indexes public inputs 0..10 of the state proof
close_witness_ok(state_pis) == Len(state_pis) >= 11

close_witness(state_pis) ==
    [host         |-> SubSeq(state_pis, 1, 4),
     guest        |-> SubSeq(state_pis, 5, 8),
     host_damage  |-> state_pis[9],
     guest_damage |-> state_pis[10],
     turn         |-> Bit(state_pis[11] # 0)]

\* damage_t with the branches of the select exchanged
damage_t_swapped(w) == select(w.turn, w.guest_damage, w.host_damage)

\* the multiplexed damage compared to the threshold
damage_t(w) == select(w.turn, w.host_damage, w.guest_damage)

end_condition(w) == is_equal(damage_t(w), threshold)

\* winner_commit_t with the branches of the select exchanged
winner_commit_t_swapped(w) == [i \in 1..4 |-> select(w.turn, w.host[i], w.guest[i])]

winner_commit_t(w) == [i \in 1..4 |-> select(w.turn, w.guest[i], w.host[i])]
loser_commit_t(w) == [i \in 1..4 |-> select(w.turn, w.host[i], w.guest[i])]

prove_close_channel_ok(state_pis) ==
    /\ close_witness_ok(state_pis)
    /\ end_condition(close_witness(state_pis)) = 1

prove_close_channel_pis(state_pis) ==
    winner_commit_t(close_witness(state_pis)) \o loser_commit_t(close_witness(state_pis))

(***************************************************************************)
(* Proof tuples: the circuit kind and the public inputs.                   *)
(***************************************************************************)
NoProof == [kind |-> "none", pis |-> <<>>]
Proof(kind, pis) == [kind |-> kind, pis |-> pis]

VARIABLES
    state_p,    \* the latest state proof held (channel open or state increment)
    shot_p,     \* the latest shot proof produced
    close_p,    \* the proof of the last successful channel close
    steps,      \* increments proved since the chain's first state
    origin,     \* the first state proof of the chain state_p belongs to
    op,         \* the last operation called
    ret,        \* its outcome: "ok" or "err"
    gboard,     \* the board handed to the game circuits
    inner_p,    \* the inner board proof held
    gout,       \* what the last call on the game circuits returned
    gop,        \* the last call on the game circuits and gadgets
    garg,       \* the shot or the value handed to the gadgets
    gret        \* its outcome: "ok" or "err"

gvars == <<gboard, inner_p, gout, gop, garg, gret>>
vars == <<state_p, shot_p, close_p, steps, origin, op, ret, gvars>>

\* nothing has been called on the game circuits
GameIdle ==
    /\ inner_p = NoProof
    /\ gout = NoProof
    /\ gop = "none"
    /\ garg = <<>>
    /\ gret = "ok"

\* no channel proof is held
ChannelIdle ==
    /\ state_p = NoProof
    /\ shot_p = NoProof
    /\ close_p = NoProof
    /\ steps = 0
    /\ origin = NoProof
    /\ op = "none"
    /\ ret = "ok"

Init ==
    /\ gboard = host_board
    /\ GameIdle
    /\ state_p = NoProof
    /\ shot_p = NoProof
    /\ close_p = NoProof
    /\ steps = 0
    /\ origin = NoProof
    /\ op = "none"
    /\ ret = "ok"

(***************************************************************************)
(* Inputs explored.                                                        *)
(***************************************************************************)
\* shot coordinates: column 0, the last column 9, and 10 which is off the grid
ShotXs == {0, 9, 10}
ShotYs == 0..MaxShotRow
ShotInputs == {<<x, y>> : x \in ShotXs, y \in ShotYs}

\* what the board and shot circuits yield for each input, evaluated once
BoardProofs == [b \in Boards |-> [ok |-> BoardCircuit_ok(b), pis |-> BoardCircuit_pis(b)]]
ShotProofs ==
    [b \in Boards |-> [s \in ShotInputs |->
        [ok |-> ShotCircuit_ok(b, s), pis |-> ShotCircuit_pis(b, s)]]]
BoardHashes == [b \in Boards |-> hash(b)]

\* State proofs handed in by the caller: prove_channel_increment and
\* prove_close_channel take any ProofTuple and verify it against the common
\* data that comes with it, so a proof of any circuit with these twelve
\* public inputs is a previous state they accept.
SuppliedDamage == {0, 16, 17}
SuppliedCommitments == { <<BoardHashes[host_board], BoardHashes[guest_board]>> }
SuppliedStates ==
    { c[1] \o c[2] \o <<hd, gd, t, serialize_shot(0, y)>> :
        c \in SuppliedCommitments, hd \in SuppliedDamage, gd \in SuppliedDamage,
        t \in {0, 1}, y \in ShotYs }

\* a failed call that also discards the state proof handed to it
Fail_discarding(name) ==
    /\ op' = name
    /\ ret' = "err"
    /\ state_p' = NoProof
    /\ UNCHANGED <<shot_p, close_p, steps, origin>>
    /\ UNCHANGED gvars

\* a call that returns Err: no proof tuple comes back, the proofs handed in
\* are the caller's as before
Fail(name) ==
    /\ op' = name
    /\ ret' = "err"
    /\ UNCHANGED <<state_p, shot_p, close_p, steps, origin>>
    /\ UNCHANGED gvars

(***************************************************************************)
(* Operations.                                                             *)
(***************************************************************************)
\* open_channel: both board proofs, then prove_channel_open; a behaviour
\* follows one channel, from its first state proof on
OpenChannel(host, guest, shot) ==
    /\ state_p = NoProof
    /\ IF /\ BoardProofs[host].ok
          /\ BoardProofs[guest].ok
          /\ prove_channel_open_ok(BoardProofs[host].pis, BoardProofs[guest].pis, shot)
       THEN /\ state_p' = Proof("open",
                   prove_channel_open_pis(BoardProofs[host].pis, BoardProofs[guest].pis, shot))
            /\ origin' = state_p'
            /\ steps' = 0
            /\ close_p' = NoProof
            /\ op' = "open"
            /\ ret' = "ok"
            /\ UNCHANGED shot_p
            /\ UNCHANGED gvars
       ELSE Fail("open")

\* the caller hands in a state proof obtained elsewhere
SupplyState(pis) ==
    /\ state_p = NoProof
    /\ state_p' = Proof("state", pis)
    /\ origin' = state_p'
    /\ steps' = 0
    /\ close_p' = NoProof
    /\ op' = "supply"
    /\ ret' = "ok"
    /\ UNCHANGED shot_p
    /\ UNCHANGED gvars

\* ShotCircuit::prove_inner
ShotProve(board, shot) ==
    IF ShotProofs[board][shot].ok
    THEN /\ shot_p' = Proof("shot", ShotProofs[board][shot].pis)
         /\ op' = "shot"
         /\ ret' = "ok"
         /\ UNCHANGED <<state_p, close_p, steps, origin>>
         /\ UNCHANGED gvars
    ELSE Fail("shot")

\* StateIncrementCircuit::prove / prove_channel_increment on the proofs held
ChannelIncrement(next) ==
    /\ state_p # NoProof
    /\ shot_p # NoProof
    /\ steps < MaxSteps
    /\ IF increment_ok(state_p.pis, shot_p.pis, next)
       THEN /\ state_p' = Proof("state", increment_pis(state_p.pis, shot_p.pis, next))
            /\ steps' = steps + 1
            /\ close_p' = NoProof
            /\ op' = "increment"
            /\ ret' = "ok"
            /\ UNCHANGED <<shot_p, origin>>
            /\ UNCHANGED gvars
       ELSE Fail("increment")

\* prove_close_channel on the state proof held
ChannelClose ==
    /\ state_p # NoProof
    /\ IF prove_close_channel_ok(state_p.pis)
       THEN /\ close_p' = Proof("close", prove_close_channel_pis(state_p.pis))
            /\ op' = "close"
            /\ ret' = "ok"
            /\ UNCHANGED <<state_p, shot_p, steps, origin>>
            /\ UNCHANGED gvars
       ELSE Fail("close")

Next ==
    \/ \E host \in Boards, guest \in Boards, shot \in ShotInputs :
            OpenChannel(host, guest, shot)
    \/ \E pis \in SuppliedStates : SupplyState(pis)
    \/ \E board \in Boards, shot \in ShotInputs : ShotProve(board, shot)
    \/ \E next \in ShotInputs : ChannelIncrement(next)
    \/ ChannelClose


Spec == Init /\ [][Next]_vars

(***************************************************************************)
(* The game circuits and gadgets on their own: a board is handed in, and   *)
(* BoardCircuit, ShotCircuit and less_than_10 are called on it.            *)
(***************************************************************************)
\* coordinates explored run over 0..MaxCoordinate, one past the grid
MaxCoordinate == 10
\* values handed to less_than_10 run over 0..MaxRangeValue
MaxRangeValue == 12

\* ships explored, by class: those of the test boards, ships that reach
\* row or column 9, ships that leave the grid, ships that collide
Carriers    == { <<3, 4, FALSE>>, <<5, 4, FALSE>>, <<6, 4, FALSE>>, <<3, 6, TRUE>> }
Battleships == { <<9, 6, TRUE>>, <<8, 5, TRUE>>, <<3, 1, TRUE>> }
Cruisers    == { <<0, 0, FALSE>>, <<3, 4, FALSE>>, <<10, 0, FALSE>> }
Submarines  == { <<0, 6, FALSE>> }
Destroyers  == { <<6, 1, TRUE>>, <<6, 1, FALSE>>, <<6, 9, TRUE>> }
GameBoards ==
    Boards \cup
    { <<c, b, r, s, d>> : c \in Carriers, b \in Battleships, r \in Cruisers,
                          s \in Submarines, d \in Destroyers }
GameShots == {<<x, y>> : x \in 0..MaxCoordinate, y \in 0..MaxCoordinate}
RangeValues == {<<value>> : value \in 0..MaxRangeValue}

\* what the circuits yield for each board, evaluated once
GameBoardProofs ==
    [b \in GameBoards |->
        [ok    |-> BoardCircuit_ok(b),
         limbs |-> recompose_board(board_after(b, 5)),
         pis   |-> BoardCircuit_pis(b)]]
GameCanonicals ==
    [b \in GameBoards |-> [ok |-> bits_ok(b), bits |-> bits(b), limbs |-> canonical(b)]]

\* the bitmap of each board after each placement, evaluated once
GameBitmaps == [b \in GameBoards |-> [n \in 0..5 |-> board_after(b, n)]]

\* the caller holds a board and either a shot <<x, y>> or a value <<v>>
GameInit ==
    /\ gboard \in GameBoards
    /\ garg \in GameShots \cup RangeValues
    /\ inner_p = NoProof
    /\ gout = NoProof
    /\ gop = "none"
    /\ gret = "ok"
    /\ ChannelIdle

GameFail(name) ==
    /\ gop' = name
    /\ gret' = "err"
    /\ gout' = NoProof
    /\ UNCHANGED <<gboard, garg, inner_p>>
    /\ UNCHANGED <<state_p, shot_p, close_p, steps, origin, op, ret>>

\* BoardCircuit::prove_inner
BoardProveInner ==
    /\ IF GameBoardProofs[gboard].ok
       THEN /\ inner_p' = Proof("board", GameBoardProofs[gboard].pis)
            /\ gout' = inner_p'
            /\ gop' = "board_inner"
            /\ gret' = "ok"
            /\ UNCHANGED <<gboard, garg>>
            /\ UNCHANGED <<state_p, shot_p, close_p, steps, origin, op, ret>>
       ELSE GameFail("board_inner")

\* BoardCircuit::prove_outer: the inner proof is verified and its public
\* inputs are registered again
BoardProveOuter ==
    /\ inner_p # NoProof
    /\ gout' = Proof("board_outer", inner_p.pis)
    /\ gop' = "board_outer"
    /\ gret' = "ok"
    /\ UNCHANGED <<gboard, garg, inner_p>>
    /\ UNCHANGED <<state_p, shot_p, close_p, steps, origin, op, ret>>

\* ShotCircuit::prove_inner on the board and the shot
ShotProveInner ==
    /\ Len(garg) = 2
    /\ IF GameCanonicals[gboard].ok /\ serialize_shot_ok(garg[1], garg[2])
       THEN /\ gout' = Proof("shot", ShotCircuit_build(GameCanonicals[gboard].limbs, garg))
            /\ gop' = "shot"
            /\ gret' = "ok"
            /\ UNCHANGED <<gboard, garg, inner_p>>
            /\ UNCHANGED <<state_p, shot_p, close_p, steps, origin, op, ret>>
       ELSE GameFail("shot")

\* a circuit that holds less_than_10 on the witnessed value
RangeCheck ==
    /\ Len(garg) = 1
    /\ IF less_than_10(garg[1])
       THEN /\ gout' = NoProof
            /\ gop' = "range"
            /\ gret' = "ok"
            /\ UNCHANGED <<gboard, garg, inner_p>>
            /\ UNCHANGED <<state_p, shot_p, close_p, steps, origin, op, ret>>
       ELSE GameFail("range")

GameNext ==
    \/ BoardProveInner
    \/ BoardProveOuter
    \/ ShotProveInner
    \/ RangeCheck

GameSpec == GameInit /\ [][GameNext]_vars

(***************************************************************************)
(* The channel circuits as constraint systems.  A proof of a circuit       *)
(* exists for every assignment of its virtual targets that satisfies the   *)
(* constraints the builder was given; witness_prev_state, witness_shot and *)
(* partial_witness make one such assignment, and a prover is free to make  *)
(* another.  The targets of game_state_targets and shot_proof_targets and  *)
(* those of prove_close_channel are fresh virtual targets: the builder is  *)
(* given no constraint between them and the public inputs of the proof     *)
(* targets that verify_proof checks.                                       *)
(***************************************************************************)
\* StateIncrementCircuit::prove: the constraints over the targets
StateIncrementCircuit_ok(prev, shot, next) ==
    /\ constrain_commitment(prev, shot)
    /\ constrain_shot(prev, shot)
    /\ serialize_shot_ok(next[1], next[2])

\* the public inputs registered over the targets
StateIncrementCircuit_pis(prev, shot, next) ==
    registered_commitments(prev)
        \o << multiplexed_host_damage(prev, shot),
              multiplexed_guest_damage(prev, shot),
              registered_turn(prev),
              serialize_shot(next[1], next[2]) >>

\* prove_close_channel: the constraint over the targets, the public inputs
close_circuit_ok(w) == end_condition(w) = 1
close_circuit_pis(w) == winner_commit_t(w) \o loser_commit_t(w)

\* assignments explored besides those the witness functions make
OtherStates ==
    { [host |-> BoardHashes[guest_board], guest |-> BoardHashes[alt_board],
       host_damage |-> threshold, guest_damage |-> threshold, turn |-> t, shot |-> 1] :
        t \in {0, 1} }
OtherShots == { [commitment |-> BoardHashes[alt_board], hit |-> 1, shot |-> 1] }
OtherCloses ==
    { [host |-> BoardHashes[guest_board], guest |-> BoardHashes[alt_board],
       host_damage |-> d, guest_damage |-> d, turn |-> 1] :
        d \in {0, threshold} }

PrevAssignments(pis) ==
    (IF decode_public_ok(pis) THEN {witness_prev_state(pis)} ELSE {}) \cup OtherStates
ShotAssignments(pis) == {witness_shot(pis)} \cup OtherShots
CloseAssignments(pis) ==
    (IF close_witness_ok(pis) THEN {close_witness(pis)} ELSE {}) \cup OtherCloses

\* a proof of the increment circuit over the two proofs held
IncrementCircuit(prev, shot, next) ==
    /\ state_p # NoProof
    /\ shot_p # NoProof
    /\ steps < MaxSteps
    /\ IF StateIncrementCircuit_ok(prev, shot, next)
       THEN /\ state_p' = Proof("state", StateIncrementCircuit_pis(prev, shot, next))
            /\ steps' = steps + 1
            /\ close_p' = NoProof
            /\ op' = "increment"
            /\ ret' = "ok"
            /\ UNCHANGED <<shot_p, origin>>
            /\ UNCHANGED gvars
       ELSE Fail("increment")

\* a proof of the close circuit over the state proof held
CloseCircuit(w) ==
    /\ state_p # NoProof
    /\ IF close_circuit_ok(w)
       THEN /\ close_p' = Proof("close", close_circuit_pis(w))
            /\ op' = "close"
            /\ ret' = "ok"
            /\ UNCHANGED <<state_p, shot_p, steps, origin>>
            /\ UNCHANGED gvars
       ELSE Fail("close")

CircuitNext ==
    \/ \E host \in Boards, guest \in Boards, shot \in ShotInputs :
            OpenChannel(host, guest, shot)
    \/ \E pis \in SuppliedStates : SupplyState(pis)
    \/ \E board \in Boards, shot \in ShotInputs : ShotProve(board, shot)
    \/ /\ state_p # NoProof
       /\ shot_p # NoProof
       /\ \E prev \in PrevAssignments(state_p.pis), shot \in ShotAssignments(shot_p.pis),
             next \in ShotInputs : IncrementCircuit(prev, shot, next)
    \/ \E w \in CloseAssignments(state_p.pis) : CloseCircuit(w)

CircuitSpec == Init /\ [][CircuitNext]_vars

(***************************************************************************)
(* Properties.  A step with op' = "increment" is a call of the increment   *)
(* on the proofs state_p and shot_p of the state it starts from; a failed  *)
(* call leaves both in place.                                              *)
(***************************************************************************)
\* the fields of a twelve-element state vector, read without truncation
HostCommit(pis) == SubSeq(pis, 1, 4)
GuestCommit(pis) == SubSeq(pis, 5, 8)
HostDamage(pis) == pis[9]
GuestDamage(pis) == pis[10]
Turn(pis) == pis[11]
NextShot(pis) == pis[12]
\* the fields of a shot proof
ShotOf(pis) == pis[1]
HitOf(pis) == pis[2]
CommitOf(pis) == SubSeq(pis, 3, 6)

IncrementCalled == op' = "increment" /\ Len(state_p.pis) >= 12
IncrementDone == IncrementCalled /\ ret' = "ok"

\* C1: an increment fails whenever the shot proof's commitment differs from
\* the commitment the previous state's turn bit selects (guest_commit if
\* turn, host_commit otherwise).
C1_WrongCommitmentFails ==
    [][ (IncrementCalled /\
         CommitOf(shot_p.pis) #
            (IF Turn(state_p.pis) = 1 THEN GuestCommit(state_p.pis)
                                       ELSE HostCommit(state_p.pis)))
        => ret' = "err" ]_vars

\* C2: the turn bit an increment publishes is the negation of the previous
\* state's turn bit.
C2_TurnFlips ==
    [][ IncrementDone => Turn(state_p'.pis) = 1 - Turn(state_p.pis) ]_vars

\* C3: an increment never lowers a damage counter, and changes at most one
\* of the two, by exactly the hit bit of the shot proof.
C3_DamageMonotone ==
    [][ IncrementDone =>
          /\ HostDamage(state_p'.pis) >= HostDamage(state_p.pis)
          /\ GuestDamage(state_p'.pis) >= GuestDamage(state_p.pis)
          /\ \/ /\ HostDamage(state_p'.pis) = HostDamage(state_p.pis) + HitOf(shot_p.pis)
                 /\ GuestDamage(state_p'.pis) = GuestDamage(state_p.pis)
             \/ /\ GuestDamage(state_p'.pis) = GuestDamage(state_p.pis) + HitOf(shot_p.pis)
                 /\ HostDamage(state_p'.pis) = HostDamage(state_p.pis) ]_vars

\* C4: host_damage' is host_damage + hit when turn is false and host_damage
\* when turn is true; guest_damage' is guest_damage + hit when turn is true
\* and guest_damage when turn is false.
C4_DamageMux ==
    [][ IncrementDone =>
          IF Turn(state_p.pis) = 1
          THEN /\ HostDamage(state_p'.pis) = HostDamage(state_p.pis)
               /\ GuestDamage(state_p'.pis) = GuestDamage(state_p.pis) + HitOf(shot_p.pis)
          ELSE /\ HostDamage(state_p'.pis) = HostDamage(state_p.pis) + HitOf(shot_p.pis)
               /\ GuestDamage(state_p'.pis) = GuestDamage(state_p.pis) ]_vars

\* C5: an increment fails whenever the shot of the shot proof differs from the
\* next shot of the previous state; every accepted increment evaluates the
\* shot its previous state declared.
C5_ShotMismatchFails ==
    [][ (IncrementCalled /\ ShotOf(shot_p.pis) # NextShot(state_p.pis))
        => ret' = "err" ]_vars

\* C5 witness: an increment was refused on a decodable previous state whose
\* next shot is not the shot of the shot proof
C5_Witness ==
    /\ op = "increment" /\ ret = "err"
    /\ Len(state_p.pis) >= 12
    /\ ShotOf(shot_p.pis) # NextShot(state_p.pis)

\* the damage counter the turn bit of a state selects for the close
SelectedDamage(pis) == IF Turn(pis) # 0 THEN HostDamage(pis) ELSE GuestDamage(pis)

\* C6: a close of a state proof succeeds if and only if the damage counter
\* its turn bit selects (host_damage if turn, else guest_damage) is 17.
C6_CloseIffSeventeen ==
    (op = "close" /\ Len(state_p.pis) >= 12)
        => (ret = "ok" <=> SelectedDamage(state_p.pis) = 17)

\* C6 witness: a close succeeded
C6_Witness ==
    op = "close" /\ ret = "ok" /\ Len(state_p.pis) >= 12 /\ close_p # NoProof

\* C7: a successful close publishes winner(4) then loser(4): the loser is the
\* commitment of the player whose counter is 17, the winner the other one;
\* guest wins when turn is true, host when turn is false.
C7_WinnerLoser ==
    (op = "close" /\ ret = "ok") =>
        /\ Len(close_p.pis) = 8
        /\ IF Turn(state_p.pis) = 1
           THEN /\ SubSeq(close_p.pis, 1, 4) = GuestCommit(state_p.pis)
                /\ SubSeq(close_p.pis, 5, 8) = HostCommit(state_p.pis)
                /\ HostDamage(state_p.pis) = 17
           ELSE /\ SubSeq(close_p.pis, 1, 4) = HostCommit(state_p.pis)
                /\ SubSeq(close_p.pis, 5, 8) = GuestCommit(state_p.pis)
                /\ GuestDamage(state_p.pis) = 17

\* C7 witness: a close succeeded on a state whose two commitments differ
C7_Witness ==
    /\ op = "close" /\ ret = "ok"
    /\ HostCommit(state_p.pis) # GuestCommit(state_p.pis)

\* C8: every state proof of a chain publishes the two commitments of the
\* chain's first proof: each increment passes both through unchanged.
C8_CommitmentsPassThrough ==
    state_p # NoProof =>
        /\ HostCommit(state_p.pis) = HostCommit(origin.pis)
        /\ GuestCommit(state_p.pis) = GuestCommit(origin.pis)

\* C8 witness: a second increment in a row was accepted
C8_Witness == op = "increment" /\ ret = "ok" /\ steps >= 2

\* C9: the increment decodes a channel-open proof as the state with the
\* open's commitments, no damage, turn = false and the opening shot.
C9_OpenDecodes ==
    state_p.kind = "open" =>
        /\ decode_public_ok(state_p.pis)
        /\ decode_public(state_p.pis) =
              [host         |-> SubSeq(state_p.pis, 1, 4),
               guest        |-> SubSeq(state_p.pis, 5, 8),
               host_damage  |-> 0,
               guest_damage |-> 0,
               turn         |-> FALSE,
               shot         |-> state_p.pis[9]]

\* C10: the first increment of a channel (turn = false, no damage yet) is
\* accepted only with a shot proof against the guest's committed board.
C10_GuestProvesFirst ==
    [][ (IncrementDone /\ steps = 0 /\ Turn(state_p.pis) = 0
            /\ HostDamage(state_p.pis) = 0 /\ GuestDamage(state_p.pis) = 0)
        => CommitOf(shot_p.pis) = GuestCommit(state_p.pis) ]_vars

\* C11: the game of the state-channel test runs to its end: the channel
\* opens on host_board and guest_board with the opening shot (0,0), every
\* increment of the game is accepted on the state before it, and the close
\* publishes winner = hash(guest_board), loser = hash(host_board).
C11_FullGame ==
    [][ /\ OpenChannel(host_board, guest_board, <<0, 0>>) => ret' = "ok"
        /\ (op' = "close" /\ ret' = "ok" /\ origin.kind = "open") =>
              /\ SubSeq(close_p'.pis, 1, 4) = GuestCommit(origin.pis)
              /\ SubSeq(close_p'.pis, 5, 8) = HostCommit(origin.pis) ]_vars

\* C12: a shot proof that an accepted increment has consumed is not accepted
\* again by the increment that follows it: two increments in a row, with no
\* shot proved in between, do not both succeed.
C12_NoReplay ==
    [][ ~ ( /\ op = "increment" /\ ret = "ok"
            /\ op' = "increment" /\ ret' = "ok" ) ]_vars

(***************************************************************************)
(* Properties of the game circuits and gadgets, under GameSpec.            *)
(***************************************************************************)
\* the cells <<x, y>> a ship of length L lies on, off the grid or not
ShipCells(ship, L) ==
    { IF ship[3] THEN <<ship[1], ship[2] + k>> ELSE <<ship[1] + k, ship[2]>> :
        k \in 0..(L - 1) }

\* two ships of the board lie on a common cell
Overlaps(b) ==
    \E n \in 1..5, m \in 1..5 :
        n < m /\ ShipCells(b[n], ShipLengths[n]) \cap ShipCells(b[m], ShipLengths[m]) # {}

\* some ship of the board has a cell outside [0,9] x [0,9]
OffGrid(b) ==
    \E n \in 1..5 : \E c \in ShipCells(b[n], ShipLengths[n]) :
        ~ (c[1] \in 0..9 /\ c[2] \in 0..9)

\* C13: BoardCircuit yields no proof for a board on which two ships occupy
\* a common cell.
C13_OverlapRejected ==
    (gop = "board_inner" /\ Overlaps(gboard)) => gret = "err"

\* C13 witness: a board refused although every ship passes the range
\* checks: two of its ships collide
C13_Witness ==
    /\ gop = "board_inner" /\ gret = "err"
    /\ Overlaps(gboard)
    /\ \A n \in 1..5 : ship_to_coordinates_ok(gboard[n], ShipLengths[n])

\* C14: BoardCircuit yields no proof for a board with a ship whose head or
\* last cell lies outside [0,9] x [0,9].
C14_OffGridRejected ==
    (gop = "board_inner" /\ OffGrid(gboard)) => gret = "err"

\* C14 witness: a board refused whose ships do not collide, the carrier
\* running over the right edge from a head inside the grid and the other
\* four passing their range checks
C14_Witness ==
    /\ gop = "board_inner" /\ gret = "err"
    /\ OffGrid(gboard) /\ ~ Overlaps(gboard)
    /\ gboard[1] = <<6, 4, FALSE>>
    /\ \A n \in 2..5 : ship_to_coordinates_ok(gboard[n], ShipLengths[n])

\* C15: BoardCircuit yields a proof for every board whose ships lie within
\* [0,9] x [0,9] and do not overlap, cells in row or column 9 included.
C15_ValidAccepted ==
    (gop = "board_inner" /\ ~ OffGrid(gboard) /\ ~ Overlaps(gboard)) => gret = "ok"

\* C16: less_than_10 is satisfied by exactly the values 0..9.
C16_RangeExact ==
    gop = "range" => (gret = "ok" <=> garg[1] \in 0..9)

C19_ShotRange ==
    (gop = "shot" /\ GameCanonicals[gboard].ok) =>
        /\ gret = "ok" <=> (garg[1] \in 0..9 /\ garg[2] \in 0..9)
        /\ gret = "ok" => (gout.pis[1] = 10 * garg[2] + garg[1] /\ gout.pis[1] \in 0..99)

\* C20: when a board whose ships lie inside the grid is marshalled for a
\* shot proof, unpacking bit i of the two limbs of Board::canonical gives bits(B)[i] for i in 0..99, bit
\* 10y + x is set exactly when a ship covers (x, y), and bits 100..127 of
\* the word are zero.
C20_CanonicalPacking ==
    (gop = "shot" /\ ~ OffGrid(gboard)) =>
        /\ GameCanonicals[gboard].ok
        /\ print_canonical(GameCanonicals[gboard].limbs) = GameCanonicals[gboard].bits
        /\ \A x \in 0..9, y \in 0..9 :
              (10 * y + x) \in GameCanonicals[gboard].bits
                  <=> \E n \in 1..5 : <<x, y>> \in ShipCells(gboard[n], ShipLengths[n])
        /\ GameCanonicals[gboard].limbs[1] \subseteq 0..63
        /\ GameCanonicals[gboard].limbs[2] \subseteq 0..35

\* C20 witness: the board was marshalled for a shot proof, with cells in
\* both limbs and two ships on a common cell
C20_Witness ==
    /\ gop = "shot" /\ gret = "ok"
    /\ ~ OffGrid(gboard) /\ Overlaps(gboard)
    /\ GameCanonicals[gboard].limbs[1] # {}
    /\ GameCanonicals[gboard].limbs[2] # {}

(***************************************************************************)
(* Further properties of the channel circuits, under Spec.                 *)
(***************************************************************************)
\* C21: a channel-open proof publishes 9 public inputs, host commitment,
\* guest commitment, serialized opening shot, and decoding it returns the
\* host commitment from inputs 0..4 and the guest commitment from 4..8.
C21_OpenLayout ==
    state_p.kind = "open" =>
        /\ Len(state_p.pis) = 9
        /\ \E host \in Boards, guest \in Boards :
              /\ SubSeq(state_p.pis, 1, 4) = BoardProofs[host].pis
              /\ SubSeq(state_p.pis, 5, 8) = BoardProofs[guest].pis
        /\ state_p.pis[9] \in 0..99
        /\ open_decode_public(state_p.pis) =
              << SubSeq(state_p.pis, 1, 4), SubSeq(state_p.pis, 5, 8) >>
\* the commitments of the boards explored
Commitments == {BoardHashes[b] : b \in Boards}

C26_DistinctCells ==
    [][ ( /\ op = "increment" /\ ret = "ok"
          /\ op' = "increment" /\ ret' = "ok"
          /\ HitOf(shot_p.pis) = 1 )
        => /\ HostDamage(state_p'.pis) = HostDamage(state_p.pis)
           /\ GuestDamage(state_p'.pis) = GuestDamage(state_p.pis) ]_vars

\* C27: along a chain of increments whose first state has both damage
\* counters within 0..17, every state has both counters within 0..17, and
\* decode_public returns them as published.
C27_DamageBounded ==
    (state_p.kind = "state" /\ steps > 0) =>
        /\ HostDamage(state_p.pis) \in 0..threshold
        /\ GuestDamage(state_p.pis) \in 0..threshold
        /\ decode_public(state_p.pis).host_damage = HostDamage(state_p.pis)
        /\ decode_public(state_p.pis).guest_damage = GuestDamage(state_p.pis)

(***************************************************************************)
(* Further properties of the board gadgets, under GameSpec.                *)
(***************************************************************************)
RECURSIVE PlacedCells(_)
\* the sum of the lengths of the first n ships
PlacedCells(n) == IF n = 0 THEN 0 ELSE ShipLengths[n] + PlacedCells(n - 1)

\* the placements before the n-th satisfy their constraints
PlacedBefore(b, n) ==
    \A m \in 1..(n - 1) : place_ship_ok(b[m], ShipLengths[m], GameBitmaps[b][m - 1])

\* the indices ship_to_coordinates yields for the n-th ship
CellsOf(b, n) ==
    { ship_to_coordinates(b[n], ShipLengths[n])[k] : k \in 0..(ShipLengths[n] - 1) }

\* C28: on every board BoardCircuit accepts, the bitmap after each of the
\* five placements has 128 entries, each 0 or 1, none set among 100..127,
\* and as many set among 0..99 as the ships placed so far have cells:
\* 5, 9, 12, 15, 17.
C28_BitmapCounts ==
    (gop = "board_inner" /\ gret = "ok") =>
        \A n \in 1..5 :
            LET bitmap == GameBitmaps[gboard][n]
            IN  /\ DOMAIN bitmap = 0..127
                /\ \A i \in 0..127 : bitmap[i] \in {0, 1}
                /\ \A i \in 100..127 : bitmap[i] = 0
                /\ Cardinality({i \in 0..99 : bitmap[i] = 1}) = PlacedCells(n)
                /\ PlacedCells(n) = <<5, 9, 12, 15, 17>>[n]

\* a board is accepted that holds ships in both orientations
C28_Witness ==
    /\ gop = "board_inner" /\ gret = "ok"
    /\ \E n \in 1..5, m \in 1..5 : gboard[n][3] /\ ~ gboard[m][3]

\* C29: place_ship returns 128 entries; entry i in 0..99 is the input entry
\* plus 1 when i is one of the indices of the ship, the input entry
\* otherwise, and entries 100..127 are the input entries.
C29_PlaceShipFrame ==
    gop = "board_inner" =>
        \A n \in 1..5 :
            PlacedBefore(gboard, n) =>
                LET board_in  == GameBitmaps[gboard][n - 1]
                    board_out == GameBitmaps[gboard][n]
                IN  /\ DOMAIN board_out = 0..127
                    /\ \A i \in 0..99 :
                          board_out[i] = IF i \in CellsOf(gboard, n)
                                         THEN board_in[i] + 1 ELSE board_in[i]
                    /\ \A i \in 100..127 : board_out[i] = board_in[i]

\* a ship is placed with one index past 99 and the others on the bitmap,
\* on a bitmap that holds the ships before it
C29_Witness ==
    /\ gop = "board_inner"
    /\ \E n \in 2..5 :
          /\ PlacedBefore(gboard, n)
          /\ \E c \in CellsOf(gboard, n) : c > 99
          /\ \E c \in CellsOf(gboard, n) : c <= 99
          /\ \E i \in 0..99 : GameBitmaps[gboard][n - 1][i] = 1

\* C30: for every ship <<x, y, z>> of length L the range checks accept,
\* ship_to_coordinates yields at offset k the index (y + k) * 10 + x when z
\* holds and y * 10 + (x + k) when not, the list Ship::coordinates gives,
\* and every index lies in 0..99.
C30_CoordinatesAgree ==
    gop = "board_inner" =>
        \A n \in 1..5 :
            LET ship == gboard[n]
                L == ShipLengths[n]
            IN  ship_to_coordinates_ok(ship, L) =>
                    \A k \in 0..(L - 1) :
                        LET c == ship_to_coordinates(ship, L)[k]
                        IN  /\ c = IF ship[3] THEN (ship[2] + k) * 10 + ship[1]
                                              ELSE ship[2] * 10 + (ship[1] + k)
                            /\ c = coordinates(ship, L)[k]
                            /\ c \in 0..99

\* the board handed in has a vertical and a horizontal ship that pass the
\* range checks, away from the diagonal and from the origin
C30_Witness ==
    /\ gop = "board_inner"
    /\ \E n \in 1..5, m \in 1..5 :
          /\ ship_to_coordinates_ok(gboard[n], ShipLengths[n])
          /\ ship_to_coordinates_ok(gboard[m], ShipLengths[m])
          /\ gboard[n][3] /\ ~ gboard[m][3]
          /\ gboard[n][1] # gboard[n][2]
          /\ gboard[m][1] # gboard[m][2]

(***************************************************************************)
(* Properties of the channel circuits as constraint systems, under         *)
(* CircuitSpec.                                                            *)
(***************************************************************************)
\* the values a state proof and a shot proof publish, as field elements
PublishedState(pis) ==
    [host |-> HostCommit(pis), guest |-> GuestCommit(pis),
     host_damage |-> HostDamage(pis), guest_damage |-> GuestDamage(pis),
     turn |-> Turn(pis), shot |-> NextShot(pis)]
PublishedShot(pis) ==
    [commitment |-> CommitOf(pis), hit |-> HitOf(pis), shot |-> ShotOf(pis)]

\* C24: every accepted increment on a state proof of twelve public inputs is
\* built from the values its two verified proofs publish: the constraints
\* hold on the published state and the shot proof's published outputs, and
\* the new public inputs are the ones the circuit computes from them.
C24_IncrementBoundToProofs ==
    [][ (op' = "increment" /\ ret' = "ok" /\ state_p.kind = "state") =>
            \E next \in ShotInputs :
                /\ StateIncrementCircuit_ok(PublishedState(state_p.pis),
                                            PublishedShot(shot_p.pis), next)
                /\ state_p'.pis =
                      StateIncrementCircuit_pis(PublishedState(state_p.pis),
                                                PublishedShot(shot_p.pis), next) ]_vars

\* C25: every close proof on a state proof of twelve public inputs is built
\* from public inputs 0..10 of that proof: the damage selected by the
\* published turn is 17, and winner and loser are selected from the
\* published commitments.
C25_CloseBoundToProof ==
    [][ (op' = "close" /\ ret' = "ok" /\ state_p.kind = "state") =>
            /\ close_circuit_ok(close_witness(state_p.pis))
            /\ close_p'.pis = close_circuit_pis(close_witness(state_p.pis)) ]_vars
====
